---- MODULE Spec2Model ----
(***************************************************************************)
(* PasswordEdit (src/gui/PasswordEdit.cpp): a QLineEdit that masks its     *)
(* text, can be paired with a base PasswordEdit (verify mode), shows a     *)
(* match / prefix-match / mismatch indicator, toggles plain-text display   *)
(* and polls the Caps Lock state.                                          *)
(*                                                                         *)
(* Qt delivers a signal synchronously: emitting it calls every connected   *)
(* slot, in connection order, each to completion, before the emitter goes  *)
(* on.  A call from outside (an edit, setShowPassword, ...) is therefore   *)
(* one action: it runs the call and the whole cascade of slots it sets     *)
(* off.  The cascade is computed by Run over a stack of pending slot       *)
(* calls.  A cascade that nests without end (a field whose                 *)
(* showPasswordChanged reaches its own setShowPassword) exhausts the C++   *)
(* stack: the program is then crashed and takes no further step.           *)
(***************************************************************************)
EXTENDS Integers, Sequences, FiniteSets, TLC

\* ---------------------------------------------------------------- bounds
\* longest text a field is given
MaxLen == 1
\* how many times enableVerifyMode is called in a run
MaxVerifyCalls == 2
\* nesting depth of slot calls at which the C++ stack is taken to be exhausted
MaxDepth == 6

\* ------------------------------------------------------------ the universe
Fields == {"f1", "f2", "f3"}
TwoFields == {"f1", "f2"}
nullptr == "nullptr"
Alphabet == {"a", "b"}
Texts == UNION {[1..n -> Alphabet] : n \in 0..MaxLen}
Password == "Password"
Normal == "Normal"
Signals == {"textChanged", "showPasswordChanged"}
Platforms == {"Q_OS_WIN", "Q_OS_MACOS", "Q_OS_UNIX"}
\* the highlight colours
CorrectSoFarColor == "#ffcd0f"
ErrorColor == "#ff7d7d"

VARIABLES
    text,                \* QLineEdit::text() of each field
    echoMode,            \* QLineEdit::echoMode() of each field
    enabled,             \* QWidget::isEnabled()
    readOnly,            \* QLineEdit::isReadOnly()
    basePasswordEdit,    \* m_basePasswordEdit, nullptr when unset
    correctVisible,      \* m_correctAction->isVisible()
    errorVisible,        \* m_errorAction->isVisible()
    styleSheet,          \* the background colour of the style sheet, "" for none
    connections,         \* the signal/slot connections made by enableVerifyMode, in order
    passwordsrepeat,     \* config()->get("security/passwordsrepeat")
    timerActive,         \* m_capslockPollTimer->isActive()
    capslockState,       \* m_capslockState
    shown,               \* the last of showEvent / hideEvent the field received
    platform,            \* the platform the program was built for
    capsLock,            \* the keyboard's Caps Lock toggle, as the platform holds it
    lastToggled,         \* the value of each field's last capslockToggled, <<>> before the first
    mirroring,           \* the paired fields shown in plain text with the option on ever since
    toggledSince,        \* on which fields setShowPassword was called since a field's pairing
    reenabled,           \* the fields the last step found disabled and left enabled
    textEdited,          \* the fields whose text the last step changed
    crashed,             \* a slot cascade recursed until the stack ran out
    lastCall,            \* the call, event or poll of the last step, with its argument or query
    emitted              \* showPasswordChanged / capslockToggled emitted in the last step

vars == <<text, echoMode, enabled, readOnly, basePasswordEdit, correctVisible,
          errorVisible, styleSheet, connections, passwordsrepeat, timerActive,
          capslockState, shown, platform, capsLock, lastToggled, mirroring,
          toggledSince, reenabled, textEdited, crashed, lastCall,
          emitted>>

widgetVars == <<text, echoMode, enabled, readOnly, basePasswordEdit, correctVisible,
                errorVisible, styleSheet, connections>>
pollVars == <<timerActive, capslockState, shown, lastToggled>>
envVars == <<platform, capsLock>>
historyVars == <<mirroring, toggledSince>>

\* ------------------------------------------------------- the widgets' state
\* The state a slot cascade reads and writes, as one record.
World ==
    [text |-> text, echoMode |-> echoMode, enabled |-> enabled, readOnly |-> readOnly,
     base |-> basePasswordEdit, correctVisible |-> correctVisible,
     errorVisible |-> errorVisible, styleSheet |-> styleSheet,
     connections |-> connections, repeat |-> passwordsrepeat]

\* startsWith that compares the lengths alone.
startsWith_LengthOnly(s, p) == Len(p) <= Len(s)

\* QString::startsWith
startsWith(s, p) ==
    /\ Len(p) <= Len(s)
    /\ SubSeq(s, 1, Len(p)) = p

passwordsEqual(w, f) == w.text[f] = w.text[w.base[f]]

\* updateStylesheet whose else branch clears the highlight and leaves the icons as they are.
updateStylesheet_KeepsIcons(w, f) ==
    IF w.base[f] # nullptr /\ ~passwordsEqual(w, f)
    THEN LET isCorrect == startsWith(w.text[w.base[f]], w.text[f])
         IN [w EXCEPT !.styleSheet[f] = IF isCorrect THEN CorrectSoFarColor ELSE ErrorColor,
                      !.correctVisible[f] = isCorrect,
                      !.errorVisible[f] = ~isCorrect]
    ELSE [w EXCEPT !.styleSheet[f] = ""]

updateStylesheet(w, f) ==
    IF w.base[f] # nullptr /\ ~passwordsEqual(w, f)
    THEN LET isCorrect == startsWith(w.text[w.base[f]], w.text[f])
         IN [w EXCEPT !.styleSheet[f] = IF isCorrect THEN CorrectSoFarColor ELSE ErrorColor,
                      !.correctVisible[f] = isCorrect,
                      !.errorVisible[f] = ~isCorrect]
    ELSE [w EXCEPT !.styleSheet[f] = "",
                   !.correctVisible[f] = FALSE,
                   !.errorVisible[f] = FALSE]

\* QObject::connect: Qt keeps, for each signal of each sender, the slots connected to
\* it in the order they were connected; connecting a slot twice makes it run twice.
connect(conns, sender, signal, receiver, slot) ==
    [conns EXCEPT ![signal][sender] = Append(@, [receiver |-> receiver, slot |-> slot])]

\* How many times enableVerifyMode has been called.
VerifyCalls(conns) ==
    LET count[fs \in SUBSET Fields] ==
            IF fs = {} THEN 0
            ELSE LET f == CHOOSE x \in fs : TRUE
                 IN Len(conns["showPasswordChanged"][f]) + count[fs \ {f}]
    IN count[Fields]

\* ------------------------------------------------------------ slot cascade
\* A pending call: slot `slot` of field `f` with argument `arg`, `depth` calls deep.
Frame(slot, f, arg, depth) == [slot |-> slot, f |-> f, arg |-> arg, depth |-> depth]

\* The slot calls `sender` emitting `signal(arg)` makes, in connection order.
SlotCalls(conns, sender, signal, arg, depth) ==
    [i \in 1..Len(conns[signal][sender]) |->
        Frame(conns[signal][sender][i].slot, conns[signal][sender][i].receiver, arg,
              depth + 1)]

\* Each operator below runs the call on top of the stack up to the point where it
\* emits a signal or returns; the slots the signal calls are put on the stack before
\* the rest of the call.

\* QLineEdit::setText: textChanged is emitted only when the text changes.
QLineEdit_setText(m) ==
    LET fr == Head(m.stack)
    IN IF m.w.text[fr.f] = fr.arg
       THEN [m EXCEPT !.stack = Tail(m.stack)]
       ELSE [m EXCEPT !.w.text[fr.f] = fr.arg,
                      !.stack = SlotCalls(m.w.connections, fr.f, "textChanged", fr.arg,
                                          fr.depth) \o Tail(m.stack)]

\* autocompletePassword that tests for the masked echo mode instead of the plain one.
autocompletePassword_WhenMasked(m) ==
    LET fr == Head(m.stack)
    IN IF m.w.repeat /\ m.w.echoMode[fr.f] = Password
       THEN [m EXCEPT !.stack = <<Frame("setText", fr.f, fr.arg, fr.depth)>> \o Tail(m.stack)]
       ELSE [m EXCEPT !.stack = Tail(m.stack)]

\* autocompletePassword that does not read the option.
autocompletePassword_IgnoresOption(m) ==
    LET fr == Head(m.stack)
    IN IF m.w.echoMode[fr.f] = Normal
       THEN [m EXCEPT !.stack = <<Frame("setText", fr.f, fr.arg, fr.depth)>> \o Tail(m.stack)]
       ELSE [m EXCEPT !.stack = Tail(m.stack)]

autocompletePassword(m) ==
    LET fr == Head(m.stack)
    IN IF m.w.repeat /\ m.w.echoMode[fr.f] = Normal
       THEN [m EXCEPT !.stack = <<Frame("setText", fr.f, fr.arg, fr.depth)>> \o Tail(m.stack)]
       ELSE [m EXCEPT !.stack = Tail(m.stack)]

\* setShowPassword that flips the echo mode instead of setting it from `show`.
setShowPassword_Flips(m) ==
    LET fr == Head(m.stack)
        f == fr.f
        show == m.w.echoMode[f] = Password
        w1 == [m.w EXCEPT !.echoMode[f] = IF show THEN Normal ELSE Password]
        end == Frame("setShowPasswordEnd", f, fr.arg, fr.depth)
    IN IF w1.base[f] # nullptr
       THEN IF w1.repeat
            THEN [m EXCEPT !.w = [w1 EXCEPT !.enabled[f] = ~show, !.readOnly[f] = show],
                           !.stack = <<Frame("setText", f, w1.text[w1.base[f]], fr.depth), end>>
                                     \o Tail(m.stack)]
            ELSE IF ~w1.enabled[f]
                 THEN [m EXCEPT !.w = [w1 EXCEPT !.enabled[f] = TRUE, !.readOnly[f] = FALSE],
                                !.stack = <<end>> \o Tail(m.stack)]
                 ELSE [m EXCEPT !.w = w1, !.stack = <<end>> \o Tail(m.stack)]
       ELSE [m EXCEPT !.w = w1, !.stack = <<end>> \o Tail(m.stack)]

\* setShowPassword that disables a confirm field and does not copy the base text.
setShowPassword_NoCopy(m) ==
    LET fr == Head(m.stack)
        f == fr.f
        show == fr.arg
        w1 == [m.w EXCEPT !.echoMode[f] = IF show THEN Normal ELSE Password]
        end == Frame("setShowPasswordEnd", f, show, fr.depth)
    IN IF w1.base[f] # nullptr
       THEN IF w1.repeat
            THEN [m EXCEPT !.w = [w1 EXCEPT !.enabled[f] = ~show, !.readOnly[f] = show],
                           !.stack = <<end>> \o Tail(m.stack)]
            ELSE IF ~w1.enabled[f]
                 THEN [m EXCEPT !.w = [w1 EXCEPT !.enabled[f] = TRUE, !.readOnly[f] = FALSE],
                                !.stack = <<end>> \o Tail(m.stack)]
                 ELSE [m EXCEPT !.w = w1, !.stack = <<end>> \o Tail(m.stack)]
       ELSE [m EXCEPT !.w = w1, !.stack = <<end>> \o Tail(m.stack)]

\* The end of setShowPassword that emits only when the echo mode of the field's
\* subscribers would change, that is, not when they already show what is asked.
setShowPasswordEnd_QuietWhenSame(m) ==
    LET fr == Head(m.stack)
        calls == SlotCalls(m.w.connections, fr.f, "showPasswordChanged", fr.arg, fr.depth)
        same == \A i \in 1..Len(calls) :
                    m.w.echoMode[calls[i].f] = IF fr.arg THEN Normal ELSE Password
    IN IF same
       THEN [m EXCEPT !.w = updateStylesheet(m.w, fr.f), !.stack = Tail(m.stack)]
       ELSE [m EXCEPT !.w = updateStylesheet(m.w, fr.f),
                      !.log = Append(m.log, [sender |-> fr.f, signal |-> "showPasswordChanged",
                                             arg |-> fr.arg]),
                      !.stack = calls \o Tail(m.stack)]

\* setShowPassword that, with the option off, leaves a disabled field disabled.
setShowPassword_NoRecovery(m) ==
    LET fr == Head(m.stack)
        f == fr.f
        show == fr.arg
        w1 == [m.w EXCEPT !.echoMode[f] = IF show THEN Normal ELSE Password]
        end == Frame("setShowPasswordEnd", f, show, fr.depth)
    IN IF w1.base[f] # nullptr /\ w1.repeat
       THEN [m EXCEPT !.w = [w1 EXCEPT !.enabled[f] = ~show, !.readOnly[f] = show],
                      !.stack = <<Frame("setText", f, w1.text[w1.base[f]], fr.depth), end>>
                                \o Tail(m.stack)]
       ELSE [m EXCEPT !.w = w1, !.stack = <<end>> \o Tail(m.stack)]

\* setShowPassword that copies the base field's text only when it shows the password.
setShowPassword_CopiesWhenShown(m) ==
    LET fr == Head(m.stack)
        f == fr.f
        show == fr.arg
        w1 == [m.w EXCEPT !.echoMode[f] = IF show THEN Normal ELSE Password]
        end == Frame("setShowPasswordEnd", f, show, fr.depth)
    IN IF w1.base[f] # nullptr
       THEN IF w1.repeat
            THEN [m EXCEPT !.w = [w1 EXCEPT !.enabled[f] = ~show, !.readOnly[f] = show],
                           !.stack = (IF show
                                      THEN <<Frame("setText", f, w1.text[w1.base[f]], fr.depth)>>
                                      ELSE <<>>) \o <<end>> \o Tail(m.stack)]
            ELSE IF ~w1.enabled[f]
                 THEN [m EXCEPT !.w = [w1 EXCEPT !.enabled[f] = TRUE, !.readOnly[f] = FALSE],
                                !.stack = <<end>> \o Tail(m.stack)]
                 ELSE [m EXCEPT !.w = w1, !.stack = <<end>> \o Tail(m.stack)]
       ELSE [m EXCEPT !.w = w1, !.stack = <<end>> \o Tail(m.stack)]

\* setShowPassword that, on a paired field, passes `show` on to the base field.
setShowPassword_PushesToBase(m) ==
    LET fr == Head(m.stack)
        f == fr.f
        show == fr.arg
        w1 == [m.w EXCEPT !.echoMode[f] = IF show THEN Normal ELSE Password]
        end == Frame("setShowPasswordEnd", f, show, fr.depth)
        push == Frame("setShowPassword", w1.base[f], show, fr.depth + 1)
    IN IF w1.base[f] # nullptr
       THEN IF w1.repeat
            THEN [m EXCEPT !.w = [w1 EXCEPT !.enabled[f] = ~show, !.readOnly[f] = show],
                           !.stack = <<Frame("setText", f, w1.text[w1.base[f]], fr.depth), push,
                                       end>> \o Tail(m.stack)]
            ELSE IF ~w1.enabled[f]
                 THEN [m EXCEPT !.w = [w1 EXCEPT !.enabled[f] = TRUE, !.readOnly[f] = FALSE],
                                !.stack = <<push, end>> \o Tail(m.stack)]
                 ELSE [m EXCEPT !.w = w1, !.stack = <<push, end>> \o Tail(m.stack)]
       ELSE [m EXCEPT !.w = w1, !.stack = <<end>> \o Tail(m.stack)]

\* setShowPassword up to its call of updateStylesheet.
setShowPassword(m) ==
    LET fr == Head(m.stack)
        f == fr.f
        show == fr.arg
        w1 == [m.w EXCEPT !.echoMode[f] = IF show THEN Normal ELSE Password]
        end == Frame("setShowPasswordEnd", f, show, fr.depth)
    IN IF w1.base[f] # nullptr
       THEN IF w1.repeat
            THEN [m EXCEPT !.w = [w1 EXCEPT !.enabled[f] = ~show, !.readOnly[f] = show],
                           !.stack = <<Frame("setText", f, w1.text[w1.base[f]], fr.depth), end>>
                                     \o Tail(m.stack)]
            ELSE IF ~w1.enabled[f]
                 THEN [m EXCEPT !.w = [w1 EXCEPT !.enabled[f] = TRUE, !.readOnly[f] = FALSE],
                                !.stack = <<end>> \o Tail(m.stack)]
                 ELSE [m EXCEPT !.w = w1, !.stack = <<end>> \o Tail(m.stack)]
       ELSE [m EXCEPT !.w = w1, !.stack = <<end>> \o Tail(m.stack)]

\* The end of setShowPassword: updateStylesheet, then emit showPasswordChanged(show).
setShowPasswordEnd(m) ==
    LET fr == Head(m.stack)
    IN [m EXCEPT !.w = updateStylesheet(m.w, fr.f),
                 !.log = Append(m.log, [sender |-> fr.f, signal |-> "showPasswordChanged",
                                        arg |-> fr.arg]),
                 !.stack = SlotCalls(m.w.connections, fr.f, "showPasswordChanged", fr.arg,
                                     fr.depth) \o Tail(m.stack)]

updateStylesheetSlot(m) ==
    [m EXCEPT !.w = updateStylesheet(m.w, Head(m.stack).f), !.stack = Tail(m.stack)]

Step(m) ==
    CASE Head(m.stack).slot = "setText" -> QLineEdit_setText(m)
      [] Head(m.stack).slot = "autocompletePassword" -> autocompletePassword(m)
      [] Head(m.stack).slot = "updateStylesheet" -> updateStylesheetSlot(m)
      [] Head(m.stack).slot = "setShowPassword" -> setShowPassword(m)
      [] Head(m.stack).slot = "setShowPasswordEnd" -> setShowPasswordEnd(m)

RECURSIVE Run(_)
\* Runs the pending calls until none is left, or until one is nested deeper than the
\* stack allows.
Run(m) ==
    IF Len(m.stack) = 0 THEN m
    ELSE IF Head(m.stack).depth > MaxDepth THEN [m EXCEPT !.overflow = TRUE]
    ELSE Run(Step(m))

\* A call of slot(arg) on field f from outside, run to completion on world w.
Call(w, slot, f, arg) ==
    Run([w |-> w, stack |-> <<Frame(slot, f, arg, 1)>>, log |-> <<>>, overflow |-> FALSE])

\* The fields that emitted showPasswordChanged in a cascade.
Senders(log) == {log[i].sender : i \in 1..Len(log)}

\* mirroring after a call: a paired field enters when setShowPassword(true) runs on
\* it with the option on, and leaves when it is masked, edited itself, paired anew
\* or the option changes.
MirroringAfter(call, r) ==
    CASE call.op = "setShowPassword" ->
            {c \in Fields :
                IF c \in Senders(r.log)
                THEN call.arg /\ r.w.base[c] # nullptr /\ r.w.repeat
                ELSE c \in mirroring}
      [] call.op = "setText" -> {c \in mirroring : basePasswordEdit[c] = call.f /\ c # call.f}
      [] call.op = "enableVerifyMode" -> mirroring \ {call.f}

\* toggledSince after a call: "none" from a field's pairing until setShowPassword is
\* called from outside, then "base" while only its base field was the target, else
\* "other".
ToggledSinceAfter(call) ==
    CASE call.op = "setShowPassword" ->
            [c \in Fields |->
                IF basePasswordEdit[c] = nullptr THEN toggledSince[c]
                ELSE IF call.f = basePasswordEdit[c] /\ toggledSince[c] # "other" THEN "base"
                ELSE "other"]
      [] call.op = "enableVerifyMode" -> [toggledSince EXCEPT ![call.f] = "none"]
      [] OTHER -> toggledSince

\* The variables after a cascade: the world it left, or a crash.
Finish(result, call) ==
    \E r \in {result} :
    /\ lastCall' = call
    /\ IF r.overflow
       THEN /\ crashed' = TRUE
            /\ emitted' = <<>>
            /\ reenabled' = {}
            /\ textEdited' = {}
            /\ UNCHANGED <<widgetVars, historyVars>>
       ELSE /\ crashed' = FALSE
            /\ emitted' = r.log
            /\ text' = r.w.text
            /\ echoMode' = r.w.echoMode
            /\ enabled' = r.w.enabled
            /\ readOnly' = r.w.readOnly
            /\ basePasswordEdit' = r.w.base
            /\ correctVisible' = r.w.correctVisible
            /\ errorVisible' = r.w.errorVisible
            /\ styleSheet' = r.w.styleSheet
            /\ connections' = r.w.connections
            /\ mirroring' = MirroringAfter(call, r)
            /\ toggledSince' = ToggledSinceAfter(call)
            /\ reenabled' = {c \in Fields : ~enabled[c] /\ r.w.enabled[c]}
            /\ textEdited' = {c \in Fields : r.w.text[c] # text[c]}

\* ------------------------------------------------------------------- Init
\* The fields as their constructors leave them.  The constructor gives
\* m_capslockState no value, so it may hold either.
Init ==
    /\ text = [f \in Fields |-> <<>>]
    /\ echoMode = [f \in Fields |-> Password]
    /\ enabled = [f \in Fields |-> TRUE]
    /\ readOnly = [f \in Fields |-> FALSE]
    /\ basePasswordEdit = [f \in Fields |-> nullptr]
    /\ correctVisible = [f \in Fields |-> FALSE]
    /\ errorVisible = [f \in Fields |-> FALSE]
    /\ styleSheet = [f \in Fields |-> ""]
    /\ connections = [sig \in Signals |-> [f \in Fields |-> <<>>]]
    /\ passwordsrepeat \in BOOLEAN
    /\ timerActive = [f \in Fields |-> FALSE]
    /\ capslockState \in [Fields -> BOOLEAN]
    /\ shown = [f \in Fields |-> FALSE]
    /\ platform \in Platforms
    /\ capsLock \in BOOLEAN
    /\ lastToggled = [f \in Fields |-> <<>>]
    /\ mirroring = {}
    /\ toggledSince = [f \in Fields |-> "none"]
    /\ reenabled = {}
    /\ textEdited = {}
    /\ crashed = FALSE
    /\ lastCall = [op |-> "PasswordEdit", f |-> nullptr, arg |-> FALSE]
    /\ emitted = <<>>

\* ---------------------------------------------------------------- actions
\* The text of field f is set to t (typed, pasted or set by the program).
SetText(f, t) ==
    /\ ~crashed
    /\ Finish(Call(World, "setText", f, t), [op |-> "setText", f |-> f, arg |-> t])
    /\ UNCHANGED <<passwordsrepeat, pollVars, envVars>>

\* setShowPassword(show) is called on field f from outside.
SetShowPassword(f, show) ==
    /\ ~crashed
    /\ Finish(Call(World, "setShowPassword", f, show),
              [op |-> "setShowPassword", f |-> f, arg |-> show])
    /\ UNCHANGED <<passwordsrepeat, pollVars, envVars>>

\* enableVerifyMode that also subscribes the base field to the paired field's edits.
enableVerifyMode_TwoWay(f, base) ==
    /\ ~crashed
    /\ VerifyCalls(connections) < MaxVerifyCalls
    /\ LET w1 == [World EXCEPT !.base[f] = base]
           w2 == updateStylesheet(w1, f)
           c1 == connect(w2.connections, base, "textChanged", f, "autocompletePassword")
           c2 == connect(c1, base, "textChanged", f, "updateStylesheet")
           c3 == connect(c2, f, "textChanged", f, "updateStylesheet")
           c4 == connect(c3, base, "showPasswordChanged", f, "setShowPassword")
           c5 == connect(c4, f, "textChanged", base, "autocompletePassword")
       IN Finish([w |-> [w2 EXCEPT !.connections = c5], log |-> <<>>, overflow |-> FALSE],
                 [op |-> "enableVerifyMode", f |-> f, base |-> base])
    /\ UNCHANGED <<passwordsrepeat, pollVars, envVars>>

enableVerifyMode(f, base) ==
    /\ ~crashed
    /\ VerifyCalls(connections) < MaxVerifyCalls
    /\ LET w1 == [World EXCEPT !.base[f] = base]
           w2 == updateStylesheet(w1, f)
           c1 == connect(w2.connections, base, "textChanged", f, "autocompletePassword")
           c2 == connect(c1, base, "textChanged", f, "updateStylesheet")
           c3 == connect(c2, f, "textChanged", f, "updateStylesheet")
           c4 == connect(c3, base, "showPasswordChanged", f, "setShowPassword")
       IN Finish([w |-> [w2 EXCEPT !.connections = c4], log |-> <<>>, overflow |-> FALSE],
                 [op |-> "enableVerifyMode", f |-> f, base |-> base])
    /\ UNCHANGED <<passwordsrepeat, pollVars, envVars>>

\* The user changes the "repeat passwords" option in the settings.
setPasswordsRepeat(v) ==
    /\ ~crashed
    /\ passwordsrepeat # v
    /\ passwordsrepeat' = v
    /\ lastCall' = [op |-> "config", f |-> nullptr, arg |-> v]
    /\ emitted' = <<>>
    /\ reenabled' = {}
    /\ textEdited' = {}
    /\ mirroring' = {}
    /\ UNCHANGED <<widgetVars, pollVars, envVars, toggledSince, crashed>>

\* isPasswordVisible that answers from the echo mode.
isPasswordVisible_FromEchoMode(f) == echoMode[f] = Normal

isPasswordVisible(f) == enabled[f]

\* ------------------------------------------------------- Caps Lock poll
Success == "Success"
BadImplementation == "BadImplementation"

\* GetKeyState(VK_CAPITAL) as a SHORT: the low bit is the toggle, the high bit is
\* set while the key is held down.
GetKeyState(toggled, down) ==
    (IF toggled THEN 1 ELSE 0) - (IF down THEN 128 ELSE 0)

\* What the platform can answer to one poll while the toggle is `toggled`.
Queries(toggled) ==
    CASE platform = "Q_OS_WIN" ->
            {[keyState |-> GetKeyState(toggled, down), isPlatformX11 |-> FALSE,
              display |-> FALSE, status |-> Success, state |-> 0] : down \in BOOLEAN}
      [] platform = "Q_OS_MACOS" ->
            {[keyState |-> 0, isPlatformX11 |-> FALSE, display |-> FALSE,
              status |-> Success, state |-> 0]}
      [] platform = "Q_OS_UNIX" ->
            {[keyState |-> 0, isPlatformX11 |-> x11, display |-> x11 /\ dpy,
              status |-> st,
              state |-> IF st = Success THEN (IF toggled THEN 1 ELSE 0) + numLock ELSE 0] :
                x11 \in BOOLEAN, dpy \in BOOLEAN, st \in {Success, BadImplementation},
                numLock \in {0, 2}}

\* newCapslockState taken from the indicator state whether or not the query succeeded.
newCapslockState_Unchecked(stored, q) ==
    CASE platform = "Q_OS_WIN" -> q.keyState = 1
      [] platform = "Q_OS_MACOS" -> stored
      [] platform = "Q_OS_UNIX" -> q.state % 2 = 1

\* The value checkCapslockState compares with m_capslockState.
newCapslockState(stored, q) ==
    CASE platform = "Q_OS_WIN" -> q.keyState = 1
      [] platform = "Q_OS_MACOS" -> stored
      [] platform = "Q_OS_UNIX" ->
            IF q.isPlatformX11 /\ q.display /\ q.status = Success
            THEN q.state % 2 = 1
            ELSE stored

\* checkCapslockState that emits the reading at every poll.
checkCapslockState_EmitsAlways(f, q) ==
    /\ ~crashed
    /\ timerActive[f]
    /\ LET new == newCapslockState(capslockState[f], q)
       IN /\ capslockState' = [capslockState EXCEPT ![f] = new]
          /\ emitted' = <<[sender |-> f, signal |-> "capslockToggled", arg |-> new]>>
          /\ lastToggled' = [lastToggled EXCEPT ![f] = <<new>>]
    /\ lastCall' = [op |-> "checkCapslockState", f |-> f, query |-> q]
    /\ reenabled' = {}
    /\ textEdited' = {}
    /\ UNCHANGED <<widgetVars, historyVars, passwordsrepeat, timerActive, shown, envVars, crashed>>

\* The poll timer of field f fires.
checkCapslockState(f, q) ==
    /\ ~crashed
    /\ timerActive[f]
    /\ LET new == newCapslockState(capslockState[f], q)
       IN IF new # capslockState[f]
          THEN /\ capslockState' = [capslockState EXCEPT ![f] = new]
               /\ emitted' = <<[sender |-> f, signal |-> "capslockToggled", arg |-> new]>>
               /\ lastToggled' = [lastToggled EXCEPT ![f] = <<new>>]
          ELSE /\ emitted' = <<>>
               /\ UNCHANGED <<capslockState, lastToggled>>
    /\ lastCall' = [op |-> "checkCapslockState", f |-> f, query |-> q]
    /\ reenabled' = {}
    /\ textEdited' = {}
    /\ UNCHANGED <<widgetVars, historyVars, passwordsrepeat, timerActive, shown, envVars, crashed>>

hideEvent(f) ==
    /\ ~crashed
    /\ shown' = [shown EXCEPT ![f] = FALSE]
    /\ timerActive' = [timerActive EXCEPT ![f] = FALSE]
    /\ lastCall' = [op |-> "hideEvent", f |-> f, arg |-> FALSE]
    /\ emitted' = <<>>
    /\ reenabled' = {}
    /\ textEdited' = {}
    /\ UNCHANGED <<widgetVars, historyVars, passwordsrepeat, capslockState, lastToggled, envVars,
                   crashed>>

\* showEvent that does not start the poll timer.
showEvent_NoTimer(f) ==
    /\ ~crashed
    /\ shown' = [shown EXCEPT ![f] = TRUE]
    /\ lastCall' = [op |-> "showEvent", f |-> f, arg |-> TRUE]
    /\ emitted' = <<>>
    /\ reenabled' = {}
    /\ textEdited' = {}
    /\ UNCHANGED <<widgetVars, historyVars, passwordsrepeat, timerActive, capslockState,
                   lastToggled, envVars, crashed>>

showEvent(f) ==
    /\ ~crashed
    /\ shown' = [shown EXCEPT ![f] = TRUE]
    /\ timerActive' = IF basePasswordEdit[f] = nullptr
                      THEN [timerActive EXCEPT ![f] = TRUE]
                      ELSE timerActive
    /\ lastCall' = [op |-> "showEvent", f |-> f, arg |-> TRUE]
    /\ emitted' = <<>>
    /\ reenabled' = {}
    /\ textEdited' = {}
    /\ UNCHANGED <<widgetVars, historyVars, passwordsrepeat, capslockState, lastToggled, envVars,
                   crashed>>

\* The user presses Caps Lock.
pressCapsLock ==
    /\ ~crashed
    /\ capsLock' = ~capsLock
    /\ lastCall' = [op |-> "capsLock", f |-> nullptr, arg |-> ~capsLock]
    /\ emitted' = <<>>
    /\ reenabled' = {}
    /\ textEdited' = {}
    /\ UNCHANGED <<widgetVars, historyVars, passwordsrepeat, pollVars, platform, crashed>>

\* The calls made on the fields F, which are paired as P allows: <<f, base>> \in P
\* stands for f.enableVerifyMode(base).
WidgetNext(F, P) ==
    \/ \E f \in F, t \in Texts : SetText(f, t)
    \/ \E f \in F, show \in BOOLEAN : SetShowPassword(f, show)
    \/ \E p \in P : enableVerifyMode(p[1], p[2])
    \/ \E v \in BOOLEAN : setPasswordsRepeat(v)

\* Each of two fields may be made the confirm field of the other.
TwoFieldPairings == {p \in TwoFields \X TwoFields : p[1] # p[2]}
\* One confirm field, f1, and the two fields it is paired with in turn.
RewirePairings == {<<"f1", "f2">>, <<"f1", "f3">>}

PollNext(F) ==
    \/ \E f \in F : showEvent(f)
    \/ \E f \in F : hideEvent(f)
    \/ \E f \in F : \E base \in F \ {f} : enableVerifyMode(f, base)
    \/ \E f \in F : \E q \in Queries(capsLock) : checkCapslockState(f, q)
    \/ pressCapsLock

\* Two fields, edited, shown in plain text, masked and paired with each other in
\* any order, in either direction and repeatedly.  The Caps Lock poll takes no part:
\* no action of Next reads or writes its variables, which stay at one of the values
\* Init allows.
WidgetInit ==
    /\ Init
    /\ platform = "Q_OS_UNIX"
    /\ capsLock = FALSE
    /\ capslockState = [f \in Fields |-> FALSE]

Next == WidgetNext(TwoFields, TwoFieldPairings)

Spec == WidgetInit /\ [][Next]_vars

\* Two fields that receive show and hide events and timer ticks and are paired in
\* any order, on each platform, while the user presses Caps Lock at will.  The texts
\* stay empty and the echo modes masked.
PollInit ==
    /\ Init
    /\ passwordsrepeat = TRUE

NextPoll == PollNext(TwoFields)

SpecPoll == PollInit /\ [][NextPoll]_vars

\* Three fields, edited, shown and masked in any order, of which f1 is paired with f2
\* and with f3 in any order.
NextRewire == WidgetNext(Fields, RewirePairings)

SpecRewire == WidgetInit /\ [][NextRewire]_vars

\* ----------------------------------------------------------------- claims
\* p is a prefix of s, said without startsWith.
IsPrefix(p, s) == \E n \in 0..Len(s) : p = [i \in 1..n |-> s[i]]

\* C1: in every state, once the notifications of the last call are delivered, no
\* field shows the error icon and the correct-so-far icon together, and a field with
\* no base field, or whose text equals its base field's text, shows neither icon and
\* no highlight.
C1_IndicatorsExclusive ==
    \A f \in Fields :
        /\ ~(errorVisible[f] /\ correctVisible[f])
        /\ (basePasswordEdit[f] = nullptr \/ text[f] = text[basePasswordEdit[f]])
            => ~errorVisible[f] /\ ~correctVisible[f] /\ styleSheet[f] = ""

\* C1's case: a paired field whose text, after an edit, equals its base field's
\* non-empty text, with the option off so that nothing was filled in for it.
C1_Witness ==
    \E f \in Fields :
        /\ basePasswordEdit[f] # nullptr
        /\ basePasswordEdit[f] # f
        /\ lastCall.op = "setText"
        /\ ~passwordsrepeat
        /\ Len(text[f]) > 0
        /\ text[f] = text[basePasswordEdit[f]]
        /\ ~errorVisible[f] /\ ~correctVisible[f]

C3_ShowOnConfirmMirrors ==
    [][(/\ lastCall'.op = "setShowPassword"
        /\ ~crashed'
        /\ passwordsrepeat
        /\ basePasswordEdit[lastCall'.f] # nullptr)
       => IF lastCall'.arg
          THEN /\ echoMode'[lastCall'.f] = Normal
               /\ ~enabled'[lastCall'.f]
               /\ readOnly'[lastCall'.f]
               /\ text'[lastCall'.f] = text[basePasswordEdit[lastCall'.f]]
               /\ text'[lastCall'.f] = text'[basePasswordEdit[lastCall'.f]]
          ELSE /\ echoMode'[lastCall'.f] = Password
               /\ enabled'[lastCall'.f]
               /\ ~readOnly'[lastCall'.f]]_vars

\* C3's case: setShowPassword(true) has just run on a paired field with the option
\* on, and the field is disabled and holds its base field's non-empty text.
C3_Witness ==
    \E f \in Fields :
        /\ lastCall.op = "setShowPassword" /\ lastCall.f = f /\ lastCall.arg
        /\ ~crashed
        /\ passwordsrepeat
        /\ basePasswordEdit[f] # nullptr
        /\ echoMode[f] = Normal /\ ~enabled[f] /\ readOnly[f]
        /\ Len(text[f]) > 0
        /\ text[f] = text[basePasswordEdit[f]]

\* C4: with the option on, an edit that changes the text of the base field of a field
\* in plain echo mode leaves both holding the new text, the paired field showing no icon; and a paired
\* field that setShowPassword(true) put in plain mode with the option on holds its
\* base field's text and shows no icon for as long as it stays plain, the option
\* stays on and only its base field is edited.
C4_BaseEditsMirrored ==
    /\ [][(lastCall'.op = "setText" /\ ~crashed' /\ text[lastCall'.f] # lastCall'.arg)
          => \A c \in Fields :
                (/\ basePasswordEdit[c] = lastCall'.f
                 /\ c # lastCall'.f
                 /\ passwordsrepeat
                 /\ echoMode[c] = Normal)
                => /\ text'[c] = lastCall'.arg
                   /\ text'[lastCall'.f] = lastCall'.arg
                   /\ ~errorVisible'[c] /\ ~correctVisible'[c]]_vars
    /\ [](\A c \in mirroring :
            /\ passwordsrepeat
            /\ echoMode[c] = Normal
            /\ basePasswordEdit[c] # nullptr
            /\ text[c] = text[basePasswordEdit[c]]
            /\ ~errorVisible[c] /\ ~correctVisible[c])

\* C4's case: the base field of a field that has been mirroring it was just given a
\* non-empty text.
C4_Witness ==
    \E c \in mirroring :
        /\ lastCall.op = "setText"
        /\ lastCall.f = basePasswordEdit[c]
        /\ Len(lastCall.arg) > 0
        /\ text[c] = lastCall.arg
        /\ toggledSince[c] = "other"

\* How many showPasswordChanged notifications field f emitted in the last step.
EmittedBy(log, f) == Cardinality({i \in 1..Len(log) : log[i].sender = f})

\* C9: every call of setShowPassword(show) that returns leaves the field in plain
\* echo mode when show is true and masked when it is false, with the icons and the
\* highlight that its text and its base field's text call for, and the field has
\* emitted showPasswordChanged(show) exactly once.
C9_SetShowPasswordAlways ==
    [][(lastCall'.op = "setShowPassword" /\ ~crashed')
       => /\ echoMode'[lastCall'.f] = IF lastCall'.arg THEN Normal ELSE Password
          /\ EmittedBy(emitted', lastCall'.f) = 1
          /\ \A i \in 1..Len(emitted') :
                /\ emitted'[i].signal = "showPasswordChanged"
                /\ emitted'[i].arg = lastCall'.arg
          /\ IF basePasswordEdit'[lastCall'.f] = nullptr
                \/ text'[lastCall'.f] = text'[basePasswordEdit'[lastCall'.f]]
             THEN /\ ~errorVisible'[lastCall'.f] /\ ~correctVisible'[lastCall'.f]
                  /\ styleSheet'[lastCall'.f] = ""
             ELSE /\ correctVisible'[lastCall'.f]
                        = IsPrefix(text'[lastCall'.f], text'[basePasswordEdit'[lastCall'.f]])
                  /\ errorVisible'[lastCall'.f] = ~correctVisible'[lastCall'.f]
                  /\ styleSheet'[lastCall'.f] # ""]_vars

\* C9's case: setShowPassword(false) was called on a field that has a subscriber:
\* the field emitted once, and after it the subscriber.
C9_Witness ==
    \E f \in Fields :
        /\ lastCall.op = "setShowPassword" /\ lastCall.f = f /\ ~lastCall.arg
        /\ ~crashed
        /\ Len(emitted) = 2
        /\ emitted[1].sender = f
        /\ emitted[2].sender # f
        /\ toggledSince[emitted[2].sender] = "base"
        /\ \A g \in Fields : text[g] = <<>>

\* C5: in every state, the poll timer of a field that has a base field is not
\* running, and no field's poll timer is running while the field is hidden.
C5_OnlyShownPrimaryPolls ==
    \A f \in Fields :
        /\ basePasswordEdit[f] # nullptr => ~timerActive[f]
        /\ ~shown[f] => ~timerActive[f]

\* The query is not made on macOS and fails on X11 when there is no X11 display or
\* XkbGetIndicatorState does not return Success.
QuerySucceeded(q) ==
    \/ platform = "Q_OS_WIN"
    \/ platform = "Q_OS_UNIX" /\ q.isPlatformX11 /\ q.display /\ q.status = Success

\* What a poll reads when the query succeeds: Caps Lock lit, and on Windows the key
\* not held down.
Reading(q) ==
    IF platform = "Q_OS_WIN" THEN q.keyState = 1 ELSE q.state \in {1, 3}

\* C6: a poll whose reading equals the stored capslockState emits nothing and stores
\* nothing; a poll whose reading differs emits capslockToggled once, with the
\* reading, and stores it; so a field's consecutive notifications carry different
\* values and its capslockState is the value of its last notification.  This holds
\* whichever value capslockState starts with.
C6_ToggledOncePerChange ==
    /\ [][(lastCall'.op = "checkCapslockState" /\ QuerySucceeded(lastCall'.query))
          => IF Reading(lastCall'.query) = capslockState[lastCall'.f]
             THEN emitted' = <<>> /\ capslockState' = capslockState
             ELSE /\ emitted' = <<[sender |-> lastCall'.f, signal |-> "capslockToggled",
                                   arg |-> Reading(lastCall'.query)]>>
                  /\ capslockState' = [capslockState EXCEPT
                                           ![lastCall'.f] = Reading(lastCall'.query)]]_vars
    /\ [][\A f \in Fields :
            (lastToggled'[f] # lastToggled[f] /\ Len(lastToggled[f]) > 0)
            => lastToggled'[f][1] # lastToggled[f][1]]_vars
    /\ [](\A f \in Fields : Len(lastToggled[f]) > 0 => capslockState[f] = lastToggled[f][1])
    /\ [][\A f \in Fields : lastToggled'[f] = lastToggled[f] <=> capslockState'[f] = capslockState[f]]_vars

\* C6's case: a field that has reported "on" polls, reads "on" again, and emits
\* nothing.
C6_Witness ==
    \E f \in Fields :
        /\ lastCall.op = "checkCapslockState"
        /\ lastCall.f = f
        /\ QuerySucceeded(lastCall.query)
        /\ lastToggled[f] = <<TRUE>>
        /\ Reading(lastCall.query)
        /\ capslockState[f]
        /\ emitted = <<>>

\* C10: a poll whose Caps Lock query is not made or fails leaves capslockState as it
\* was and emits nothing, whatever capslockState holds.
C10_FailedQueryKeepsState ==
    [][(lastCall'.op = "checkCapslockState" /\ ~QuerySucceeded(lastCall'.query))
       => emitted' = <<>> /\ capslockState' = capslockState /\ lastToggled' = lastToggled]_vars

\* C10's case: XkbGetIndicatorState fails on a poll of a field that has reported and
\* stored "on", while Caps Lock is off.
C10_Witness ==
    \E f \in Fields :
        /\ lastCall.op = "checkCapslockState"
        /\ lastCall.f = f
        /\ platform = "Q_OS_UNIX"
        /\ lastCall.query.isPlatformX11 /\ lastCall.query.display
        /\ lastCall.query.status # Success
        /\ lastToggled[f] = <<TRUE>>
        /\ capslockState[f]
        /\ ~capsLock
        /\ emitted = <<>>

\* C7 as claimed: a paired field on which, since its pairing, setShowPassword was
\* called from outside on its base field alone, or not at all, has its base field's
\* echo mode.
C7_EchoModesEqualFromPairing ==
    \A c \in Fields :
        (basePasswordEdit[c] # nullptr /\ toggledSince[c] \in {"none", "base"})
        => echoMode[c] = echoMode[basePasswordEdit[c]]

\* C7 as amended: enableVerifyMode changes no echo mode, and a paired field has its
\* base field's echo mode once setShowPassword has been called on the base field
\* after the pairing, and for as long as it is called from outside on no other
\* field.
C7_EchoModesEqualAfterBaseToggle ==
    /\ [](\A c \in Fields :
            (basePasswordEdit[c] # nullptr /\ toggledSince[c] = "base")
            => echoMode[c] = echoMode[basePasswordEdit[c]])
    /\ [][lastCall'.op = "enableVerifyMode" => echoMode' = echoMode]_vars

\* C7's case: the option is off, and setShowPassword(true) on the base field, the
\* only such call since the pairing, has put both fields in plain mode.
C7_Witness ==
    \E c \in Fields :
        /\ basePasswordEdit[c] # nullptr
        /\ toggledSince[c] = "base"
        /\ ~passwordsrepeat
        /\ lastCall.op = "setShowPassword"
        /\ lastCall.f = basePasswordEdit[c]
        /\ lastCall.arg
        /\ echoMode[c] = Normal
        /\ echoMode[basePasswordEdit[c]] = Normal

\* C8: once f1.enableVerifyMode(f2) has been followed by f1.enableVerifyMode(f3), no
\* text change of f2 and no setShowPassword call on f2 changes f1's text, echo mode,
\* enabled or read-only state, icons or highlight, or makes f1 emit a notification.
C8_OldBaseNoLongerDrives ==
    [][(/\ basePasswordEdit["f1"] = "f3"
        /\ Len(connections["showPasswordChanged"]["f2"]) > 0
        /\ lastCall'.op \in {"setText", "setShowPassword"}
        /\ lastCall'.f = "f2")
       => /\ text'["f1"] = text["f1"]
          /\ echoMode'["f1"] = echoMode["f1"]
          /\ enabled'["f1"] = enabled["f1"]
          /\ readOnly'["f1"] = readOnly["f1"]
          /\ correctVisible'["f1"] = correctVisible["f1"]
          /\ errorVisible'["f1"] = errorVisible["f1"]
          /\ styleSheet'["f1"] = styleSheet["f1"]
          /\ "f1" \notin Senders(emitted')]_vars

\* The connections as one call of enableVerifyMode would have made them, in a state
\* where the same call was made twice: the first half of each list.
OnceConnections ==
    [sig \in Signals |->
        [s \in Fields |-> SubSeq(connections[sig][s], 1, Len(connections[sig][s]) \div 2)]]

\* f.enableVerifyMode(b) was called twice, and enableVerifyMode on no other occasion.
CalledTwice(f, b) ==
    /\ basePasswordEdit[f] = b
    /\ VerifyCalls(connections) = 2
    /\ connections["showPasswordChanged"][b]
          = <<[receiver |-> f, slot |-> "setShowPassword"],
              [receiver |-> f, slot |-> "setShowPassword"]>>

\* C11: in a state where f.enableVerifyMode(b) was called twice, every text edit and
\* every setShowPassword call on b or f leaves the fields in the state, and emits the
\* showPasswordChanged notifications in the sequence, that the same call makes when
\* the pairing was made once.
C11_SecondCallChangesNothing ==
    [][\A f \in Fields, b \in Fields :
        (/\ CalledTwice(f, b)
         /\ lastCall'.op \in {"setText", "setShowPassword"}
         /\ lastCall'.f \in {f, b}
         /\ ~crashed')
        => \E r \in {Call([World EXCEPT !.connections = OnceConnections],
                          lastCall'.op, lastCall'.f, lastCall'.arg)} :
            /\ ~r.overflow
            /\ text' = r.w.text
            /\ echoMode' = r.w.echoMode
            /\ enabled' = r.w.enabled
            /\ readOnly' = r.w.readOnly
            /\ correctVisible' = r.w.correctVisible
            /\ errorVisible' = r.w.errorVisible
            /\ styleSheet' = r.w.styleSheet
            /\ emitted' = r.log]_vars

\* The fields on which setShowPassword ran in the last step: the field it was called
\* on from outside and the fields it reached as a slot.
RanSetShowPassword == Senders(emitted)

\* C12: isPasswordVisible() is the field's enabled flag, whatever its echo mode: a
\* field with no base field answers true in every state; after a setShowPassword(show)
\* call made with the option on, each paired field the call ran on answers the
\* negation of show; and the answer of a field changes only in a step in which
\* setShowPassword ran on it.
C12_VisibleIffEnabled ==
    /\ [](\A f \in Fields : isPasswordVisible(f) = enabled[f])
    /\ [](\A f \in Fields : basePasswordEdit[f] = nullptr => isPasswordVisible(f))
    /\ [][(lastCall'.op = "setShowPassword" /\ ~crashed' /\ passwordsrepeat)
          => \A c \in RanSetShowPassword' :
                basePasswordEdit[c] # nullptr
                => /\ isPasswordVisible(c)' = ~lastCall'.arg
                   /\ isPasswordVisible(c)' = (echoMode'[c] = Password)]_vars
    /\ [][\A f \in Fields :
            isPasswordVisible(f)' # isPasswordVisible(f)
            => lastCall'.op = "setShowPassword" /\ f \in RanSetShowPassword']_vars

\* C12's case: setShowPassword(true) on a base field with the option on has put both
\* fields in plain mode; the base field answers true and the paired field false.
C12_Witness ==
    \E c \in Fields :
        /\ basePasswordEdit[c] # nullptr
        /\ basePasswordEdit[basePasswordEdit[c]] = nullptr
        /\ lastCall.op = "setShowPassword" /\ lastCall.f = basePasswordEdit[c] /\ lastCall.arg
        /\ ~crashed
        /\ passwordsrepeat
        /\ c \in RanSetShowPassword
        /\ echoMode[c] = Normal /\ echoMode[basePasswordEdit[c]] = Normal
        /\ ~isPasswordVisible(c)
        /\ isPasswordVisible(basePasswordEdit[c])

\* C13: a setShowPassword call made with the option off leaves the text of every
\* paired field it ran on as it was, leaves such a field enabled and not read-only
\* if it was disabled, and leaves its enabled and read-only flags as they were if it
\* was enabled; and a setShowPassword call on a field with no base field changes
\* neither that field's enabled flag nor its read-only flag nor its text, whether
\* the option is on or off.
C13_OptionOffOnlyRecovers ==
    /\ [][(lastCall'.op = "setShowPassword" /\ ~crashed' /\ ~passwordsrepeat)
          => \A c \in RanSetShowPassword' :
                basePasswordEdit[c] # nullptr
                => /\ text'[c] = text[c]
                   /\ IF ~enabled[c]
                      THEN enabled'[c] /\ ~readOnly'[c]
                      ELSE enabled'[c] = enabled[c] /\ readOnly'[c] = readOnly[c]]_vars
    /\ [][(/\ lastCall'.op = "setShowPassword"
           /\ ~crashed'
           /\ basePasswordEdit[lastCall'.f] = nullptr)
          => /\ text'[lastCall'.f] = text[lastCall'.f]
             /\ enabled'[lastCall'.f] = enabled[lastCall'.f]
             /\ readOnly'[lastCall'.f] = readOnly[lastCall'.f]]_vars

\* C13's case: setShowPassword(true), called with the option off on a paired field
\* that was disabled, has left it enabled, not read-only and in plain mode, holding
\* the non-empty text it had.
C13_Witness ==
    \E c \in Fields :
        /\ basePasswordEdit[c] # nullptr
        /\ lastCall.op = "setShowPassword" /\ lastCall.f = c /\ lastCall.arg
        /\ ~crashed
        /\ ~passwordsrepeat
        /\ c \in reenabled
        /\ enabled[c] /\ ~readOnly[c]
        /\ echoMode[c] = Normal
        /\ Len(text[c]) > 0

\* C14: an edit that changes the text of a base field leaves the text, the echo mode
\* and the enabled and read-only flags of each field paired with it as they were,
\* when the option is off or that field is masked; the field's icons and highlight
\* are then those that its unchanged text and the base field's new text call for.
C14_BaseEditLeavesConfirm ==
    [][(lastCall'.op = "setText" /\ ~crashed' /\ lastCall'.f \in textEdited')
       => \A c \in Fields :
            (/\ basePasswordEdit[c] = lastCall'.f
             /\ c # lastCall'.f
             /\ (~passwordsrepeat \/ echoMode[c] = Password))
            => /\ text'[c] = text[c]
               /\ echoMode'[c] = echoMode[c]
               /\ enabled'[c] = enabled[c]
               /\ readOnly'[c] = readOnly[c]
               /\ IF text[c] = lastCall'.arg
                  THEN /\ ~correctVisible'[c] /\ ~errorVisible'[c]
                       /\ styleSheet'[c] = ""
                  ELSE /\ correctVisible'[c] = IsPrefix(text[c], lastCall'.arg)
                       /\ errorVisible'[c] = ~IsPrefix(text[c], lastCall'.arg)
                       /\ styleSheet'[c] = IF IsPrefix(text[c], lastCall'.arg)
                                           THEN CorrectSoFarColor ELSE ErrorColor]_vars

\* C14's case: with the option off, an edit has changed the text of the base field
\* of a field in plain mode, which keeps its own, different, non-empty text and shows
\* the error icon.
C14_Witness ==
    \E c \in Fields :
        /\ basePasswordEdit[c] # nullptr
        /\ basePasswordEdit[c] # c
        /\ lastCall.op = "setText" /\ lastCall.f = basePasswordEdit[c]
        /\ textEdited = {basePasswordEdit[c]}
        /\ ~passwordsrepeat
        /\ echoMode[c] = Normal
        /\ Len(text[c]) > 0
        /\ Len(lastCall.arg) > 0
        /\ text[c] # lastCall.arg
        /\ errorVisible[c]

\* C15: a setShowPassword call made with the option on leaves every paired field it
\* ran on, which are the field it was called on and the fields paired with that
\* field, holding the text its base field had and has, with neither icon and no
\* highlight; this holds for setShowPassword(false) as for setShowPassword(true),
\* whatever text the paired field held before.
C15_HideAlsoOverwrites ==
    [][(lastCall'.op = "setShowPassword" /\ ~crashed' /\ passwordsrepeat)
       => /\ \A c \in Fields :
                (basePasswordEdit[c] # nullptr /\ lastCall'.f \in {c, basePasswordEdit[c]})
                => c \in RanSetShowPassword'
          /\ \A c \in RanSetShowPassword' :
                basePasswordEdit[c] # nullptr
                => /\ text'[c] = text[basePasswordEdit[c]]
                   /\ text'[c] = text'[basePasswordEdit[c]]
                   /\ ~correctVisible'[c] /\ ~errorVisible'[c]
                   /\ styleSheet'[c] = ""]_vars

\* C15's case: with the option on, setShowPassword(false) on a base field has
\* replaced the different text its paired field held by the base field's non-empty
\* text.
C15_Witness ==
    \E c \in Fields :
        /\ basePasswordEdit[c] # nullptr
        /\ lastCall.op = "setShowPassword"
        /\ lastCall.f = basePasswordEdit[c]
        /\ ~lastCall.arg
        /\ ~crashed
        /\ passwordsrepeat
        /\ c \in textEdited
        /\ Len(text[c]) > 0
        /\ text[c] = text[basePasswordEdit[c]]
        /\ echoMode[c] = Password

\* The fields f.enableVerifyMode was called with: the senders f's slots are connected to.
PairedWith(f) ==
    {b \in Fields : \E i \in 1..Len(connections["showPasswordChanged"][b]) :
                        connections["showPasswordChanged"][b][i].receiver = f}

RECURSIVE BasesWithin(_, _)
\* The fields reached from f by at most n pairings, n >= 1.
BasesWithin(f, n) ==
    IF n = 1 THEN PairedWith(f)
    ELSE BasesWithin(f, n - 1) \cup UNION {PairedWith(g) : g \in BasesWithin(f, n - 1)}

\* Some field is its own base, directly or through a chain of pairings.
Cyclic == \E f \in Fields : f \in BasesWithin(f, Cardinality(Fields))

\* C16: while no field is its own base, directly or through a chain of pairings,
\* every text edit and every setShowPassword call returns, its cascade of slot calls
\* having come to an end (a call does not return only if some field is its own base);
\* and enableVerifyMode refuses no pairing, neither of a field
\* with itself nor of a field with one that is paired with it.
C16_AcyclicCascadeEnds ==
    /\ [][(lastCall'.op \in {"setText", "setShowPassword"} /\ crashed') => Cyclic]_vars
    /\ [](\A f \in TwoFields, b \in TwoFields :
            (~crashed /\ VerifyCalls(connections) < MaxVerifyCalls)
            => ENABLED enableVerifyMode(f, b))

\* C16's case: a field has been paired twice with its base field and not the other
\* way round, the option is on, and setShowPassword(false) on the base field has
\* returned after the paired field ran it twice and had its text replaced.
C16_Witness ==
    \E c \in Fields, b \in Fields :
        /\ CalledTwice(c, b)
        /\ ~Cyclic
        /\ lastCall.op = "setShowPassword" /\ lastCall.f = b /\ ~lastCall.arg
        /\ ~crashed
        /\ passwordsrepeat
        /\ Len(emitted) = 3
        /\ c \in textEdited

\* Two fields of which f1 is paired with f2, once or repeatedly, and never f2 with
\* f1: both are edited, shown in plain text and masked, and receive show and hide
\* events, in any order.  The option keeps the value it starts with.
NextOneWay ==
    \/ \E f \in TwoFields, t \in Texts : SetText(f, t)
    \/ \E f \in TwoFields, show \in BOOLEAN : SetShowPassword(f, show)
    \/ enableVerifyMode("f1", "f2")
    \/ \E f \in TwoFields : showEvent(f)
    \/ \E f \in TwoFields : hideEvent(f)

SpecOneWay == WidgetInit /\ [][NextOneWay]_vars

\* C17: for a field c paired with a field b that is not paired with c, directly or
\* through a chain of pairings, no text edit of c, no setShowPassword or
\* enableVerifyMode call on c and no show or hide event of c changes b's text, echo
\* mode, enabled or read-only flag, icons, highlight or poll timer, or makes b emit
\* showPasswordChanged or capslockToggled.
C17_ConfirmNeverDrivesBase ==
    [][\A c \in Fields, b \in Fields :
        (/\ lastCall'.f = c
         /\ lastCall'.op \in {"setText", "setShowPassword", "enableVerifyMode", "showEvent",
                              "hideEvent"}
         /\ basePasswordEdit[c] = b
         /\ b # c
         /\ c \notin BasesWithin(b, Cardinality(Fields)))
        => /\ text'[b] = text[b]
           /\ echoMode'[b] = echoMode[b]
           /\ enabled'[b] = enabled[b]
           /\ readOnly'[b] = readOnly[b]
           /\ correctVisible'[b] = correctVisible[b]
           /\ errorVisible'[b] = errorVisible[b]
           /\ styleSheet'[b] = styleSheet[b]
           /\ timerActive'[b] = timerActive[b]
           /\ b \notin Senders(emitted')]_vars

\* C17's case: with the option on, setShowPassword(true) on a paired field has put it
\* in plain mode and replaced its text, while its base field, which is shown and
\* polling, stays masked and has emitted nothing.
C17_Witness ==
    \E c \in Fields :
        /\ basePasswordEdit[c] # nullptr
        /\ basePasswordEdit[c] # c
        /\ c \notin BasesWithin(basePasswordEdit[c], Cardinality(Fields))
        /\ lastCall.op = "setShowPassword" /\ lastCall.f = c /\ lastCall.arg
        /\ passwordsrepeat
        /\ c \in textEdited
        /\ echoMode[c] = Normal
        /\ echoMode[basePasswordEdit[c]] = Password
        /\ timerActive[basePasswordEdit[c]]
        /\ Senders(emitted) = {c}

\* The answer of the last step's Caps Lock query, NoQuery if the step was no poll.
NoQuery ==
    [keyState |-> 0, isPlatformX11 |-> FALSE, display |-> FALSE, status |-> "none", state |-> 0]

LastQuery == IF lastCall.op = "checkCapslockState" THEN lastCall.query ELSE NoQuery

\* All that a poll can change.
pollView == <<capslockState, lastToggled, emitted, lastCall.op, lastCall.f, LastQuery>>

\* One field with no base field, f1, that is shown, hidden and polled while the user
\* presses Caps Lock at will, on each platform.
NextPollLive ==
    \/ showEvent("f1")
    \/ hideEvent("f1")
    \/ \E q \in Queries(capsLock) : checkCapslockState("f1", q)
    \/ pressCapsLock

\* The poll timer of a field fires every 50 ms for as long as it is active: a poll
\* that stays possible is eventually made.
SpecPollLive ==
    /\ PollInit
    /\ [][NextPollLive]_vars
    /\ WF_pollView(\E q \in Queries(capsLock) : checkCapslockState("f1", q))

\* Field f has no base field and is shown, and if the last step was a poll of f, its
\* query succeeded and read v.
ShownAndReading(f, v) ==
    /\ basePasswordEdit[f] = nullptr
    /\ shown[f]
    /\ (lastCall.op = "checkCapslockState" /\ lastCall.f = f)
        => (QuerySucceeded(lastCall.query) /\ Reading(lastCall.query) = v)

\* C18: if, from some state on, a field with no base field stays shown and each of
\* its polls succeeds and reads v, then its capslockState is eventually v; if its
\* capslockState differs from v in that state, it eventually emits capslockToggled(v);
\* this includes a field shown again after Caps Lock changed while it was hidden.
C18_ReadingEventuallyStored ==
    /\ \A v \in BOOLEAN :
        []<>(~ShownAndReading("f1", v) \/ capslockState["f1"] = v)
    /\ \A v \in BOOLEAN :
        (capslockState["f1"] # v) ~> (~ShownAndReading("f1", v) \/ lastToggled["f1"] = <<v>>)

\* C18's case: a shown field with no base field, whose last notification said "off",
\* polls successfully while Caps Lock is on and emits capslockToggled(true).
C18_Witness ==
    \E f \in Fields :
        /\ basePasswordEdit[f] = nullptr
        /\ shown[f]
        /\ lastCall.op = "checkCapslockState"
        /\ lastCall.f = f
        /\ QuerySucceeded(lastCall.query)
        /\ capsLock
        /\ emitted = <<[sender |-> f, signal |-> "capslockToggled", arg |-> TRUE]>>
        /\ capslockState[f]
====
